---- MODULE Spec2Model ----
(***************************************************************************)
(* Rocket sled physics engine (the engine listing in README.md, lines      *)
(* 108-275) together with the controller calls of src/js/main.js and       *)
(* src/js/visualization.js that drive it.                                  *)
(*                                                                         *)
(* The engine computes with IEEE doubles.  The model computes with         *)
(* integers in fixed units, chosen so that every product of the engine's   *)
(* constants with the inputs drawn below is exact:                         *)
(*     time          1e-4 s   (2.5 ms = 25, the 50 ms cap = 500)           *)
(*     force         1e-3 N   (2000 N = 2000000)                           *)
(*     mass          1 kg                                                  *)
(*     acceleration  1e-3 m/s^2  (= force unit / mass unit)                *)
(*     velocity      1e-7 m/s    (= acceleration unit * time unit)         *)
(*     position      1e-5 m                                                *)
(* Quotients that are not exact (drag, position increment) are truncated   *)
(* towards zero; this stands for the rounding of the floating point        *)
(* operation.  Inputs are finite numbers (no NaN, no Infinity).            *)
(***************************************************************************)
EXTENDS Integers, Sequences, FiniteSets, TLC

VARIABLES physicsState, appliedForceMagnitude, op, dtArg, dirArg, pre, steps

\* the controller (visualization.js 509-510): the run flag and the timestamp
\* of the last frame; now is the latest timestamp the page has seen, display
\* tells which modal is shown, timers holds the pending closeModal timeouts
VARIABLES isRunning, lastTime, now, display, timers

\* overspeed is the alarm styling the display shows (the class 'danger' of
\* visualization.js 894, 'red-zone' of 1278); snapshot holds the object a
\* caller got from getPhysicsState, if any
VARIABLES overspeed, snapshot

\* the value of the direction slider element (visualization.js 536)
VARIABLES directionSlider

driverVars == <<isRunning, lastTime, now, display, timers, overspeed, snapshot,
                directionSlider>>

vars == <<physicsState, appliedForceMagnitude, op, dtArg, dirArg, pre, steps,
          isRunning, lastTime, now, display, timers, overspeed, snapshot,
          directionSlider>>

(***************************************************************************)
(* Bounds of the model and the inputs the operations are called with.      *)
(***************************************************************************)
\* number of updatePhysics calls in one behaviour
MaxSteps == 2

\* dt arguments: 0, 1 ms, 2.5 ms, 50 ms (the driver's cap), 13 s (a caller
\* that does not cap)
DtValues == {0, 10, 25, 500, 130000}

\* arguments of setThrustDirection
DirectionInputs == {-2, -1, 0, 1, 2}

\* arguments of setAppliedForceMagnitude (mN): -100 N and 500 N
MagnitudeInputs == {-100000, 500000}

(***************************************************************************)
(* Physical constants, README.md lines 113-119, in model units.            *)
(***************************************************************************)
SLED_MASS == 500

APPLIED_FORCE == 2000000

\* FRICTION_COEFFICIENT = 0.15, in hundredths
FRICTION_COEFFICIENT == 15

\* AIR_DRAG_COEFFICIENT = 0.5, in tenths
AIR_DRAG_COEFFICIENT == 5

\* GRAVITY = 9.8 m/s^2
GRAVITY == 9800

\* MAX_VELOCITY = 50 m/s
MAX_VELOCITY == 500000000

\* the literal 0.01 (m/s) of the moving tests
MOVING_THRESHOLD == 100000

\* the literal 0.1 (m/s) of the low-speed block
SLOW_THRESHOLD == 1000000

\* the literal 0.05 (m/s) below which resistance stops the sled
STOP_THRESHOLD == 500000

(***************************************************************************)
(* Math.abs, Math.sign, Math.max, Math.min and the arithmetic helpers.     *)
(***************************************************************************)
Abs(x) == IF x < 0 THEN -x ELSE x

Sign(x) == IF x > 0 THEN 1 ELSE IF x < 0 THEN -1 ELSE 0

Max(a, b) == IF a >= b THEN a ELSE b

Min(a, b) == IF a <= b THEN a ELSE b

\* <<q, r>> with a * b = q * c + r and 0 <= r < c, for 0 <= a < c, b >= 0,
\* computed without an intermediate that leaves 32 bits
RECURSIVE MulDivRec(_, _, _)
MulDivRec(a, b, c) ==
    IF b = 0 THEN <<0, 0>>
    ELSE LET h == MulDivRec(a, b \div 2, c)
             t == 2 * h[2] + (b % 2) * a
         IN  <<2 * h[1] + (t \div c), t % c>>

\* a * b / c truncated towards zero (b >= 0, c > 0)
MulDiv(a, b, c) ==
    LET m == Abs(a)
    IN  Sign(a) * ((m \div c) * b + MulDivRec(m % c, b, c)[1])

\* a / b truncated towards zero (b > 0)
Quot(a, b) == Sign(a) * (Abs(a) \div b)

(***************************************************************************)
(* The engine state, README.md lines 122-140.                              *)
(***************************************************************************)
physicsStateLiteral ==
    [position |-> 0, velocity |-> 0, acceleration |-> 0, mass |-> SLED_MASS,
     appliedForce |-> 0, frictionForce |-> 0, airDragForce |-> 0,
     normalForce |-> 0, gravityForce |-> 0, netForce |-> 0,
     frictionEnabled |-> FALSE, airDragEnabled |-> FALSE,
     thrustDirection |-> 0]

(***************************************************************************)
(* resetPhysics, README.md lines 145-158.                                  *)
(***************************************************************************)
\* resetPhysics without its last assignment (line 157)
resetPhysics_noNormal(s) ==
    LET z == [s EXCEPT !.position = 0, !.velocity = 0, !.acceleration = 0,
                       !.appliedForce = 0, !.frictionForce = 0,
                       !.airDragForce = 0, !.netForce = 0,
                       !.thrustDirection = 0]
    IN  [z EXCEPT !.gravityForce = z.mass * GRAVITY]

\* a reset that also switches both resistances off
resetPhysics_clearsFlags(s) ==
    LET z == [s EXCEPT !.position = 0, !.velocity = 0, !.acceleration = 0,
                       !.appliedForce = 0, !.frictionForce = 0,
                       !.airDragForce = 0, !.netForce = 0,
                       !.thrustDirection = 0,
                       !.frictionEnabled = FALSE, !.airDragEnabled = FALSE]
        g == [z EXCEPT !.gravityForce = z.mass * GRAVITY]
    IN  [g EXCEPT !.normalForce = g.gravityForce]

\* a reset that recomputes the thrust from the direction it then clears
resetPhysics_staleThrust(s) ==
    LET z == [s EXCEPT !.position = 0, !.velocity = 0, !.acceleration = 0,
                       !.appliedForce = s.thrustDirection * APPLIED_FORCE,
                       !.frictionForce = 0,
                       !.airDragForce = 0, !.netForce = 0,
                       !.thrustDirection = 0]
        g == [z EXCEPT !.gravityForce = z.mass * GRAVITY]
    IN  [g EXCEPT !.normalForce = g.gravityForce]

resetPhysics(s) ==
    LET z == [s EXCEPT !.position = 0, !.velocity = 0, !.acceleration = 0,
                       !.appliedForce = 0, !.frictionForce = 0,
                       !.airDragForce = 0, !.netForce = 0,
                       !.thrustDirection = 0]
        g == [z EXCEPT !.gravityForce = z.mass * GRAVITY]
    IN  [g EXCEPT !.normalForce = g.gravityForce]

(***************************************************************************)
(* The setters, README.md lines 164-182.                                   *)
(***************************************************************************)
\* the direction stored as given
setThrustDirection_raw(s, direction) ==
    [s EXCEPT !.thrustDirection = direction]

setThrustDirection(s, direction) ==
    [s EXCEPT !.thrustDirection = Sign(direction)]

\* a setter that also clears the force it switches off
setFrictionEnabled_zeroesForce(s, enabled) ==
    IF enabled
    THEN [s EXCEPT !.frictionEnabled = enabled]
    ELSE [s EXCEPT !.frictionEnabled = enabled, !.frictionForce = 0]

setFrictionEnabled(s, enabled) == [s EXCEPT !.frictionEnabled = enabled]

setAirDragEnabled(s, enabled) == [s EXCEPT !.airDragEnabled = enabled]

(***************************************************************************)
(* updatePhysics, README.md lines 188-248, one operator per block.         *)
(***************************************************************************)
\* lines 189-191
VerticalForces(s) ==
    LET g == [s EXCEPT !.gravityForce = s.mass * GRAVITY]
    IN  [g EXCEPT !.normalForce = g.gravityForce]

\* the thrust recomputed only while the engine is commanded on
ThrustForce_keepStale(s) ==
    IF s.thrustDirection = 0
    THEN s
    ELSE [s EXCEPT !.appliedForce = s.thrustDirection * APPLIED_FORCE]

\* lines 193-194
ThrustForce(s) ==
    [s EXCEPT !.appliedForce = s.thrustDirection * APPLIED_FORCE]

\* FRICTION_COEFFICIENT * normalForce, lines 198 and 207
FrictionMagnitude(s) == (FRICTION_COEFFICIENT * s.normalForce) \div 100

\* kinetic friction computed whatever the flag says
KineticFriction_ignoreFlag(s) ==
    IF Abs(s.velocity) > MOVING_THRESHOLD
    THEN [s EXCEPT !.frictionForce = -Sign(s.velocity) * FrictionMagnitude(s)]
    ELSE [s EXCEPT !.frictionForce = 0]

\* kinetic friction from |velocity| >= 0.01 on
KineticFriction_inclusive(s) ==
    IF s.frictionEnabled /\ Abs(s.velocity) >= MOVING_THRESHOLD
    THEN [s EXCEPT !.frictionForce = -Sign(s.velocity) * FrictionMagnitude(s)]
    ELSE [s EXCEPT !.frictionForce = 0]

\* kinetic friction along the velocity instead of against it
KineticFriction_wrongSign(s) ==
    IF s.frictionEnabled /\ Abs(s.velocity) > MOVING_THRESHOLD
    THEN [s EXCEPT !.frictionForce = Sign(s.velocity) * FrictionMagnitude(s)]
    ELSE [s EXCEPT !.frictionForce = 0]

\* lines 196-202
KineticFriction(s) ==
    IF s.frictionEnabled /\ Abs(s.velocity) > MOVING_THRESHOLD
    THEN [s EXCEPT !.frictionForce = -Sign(s.velocity) * FrictionMagnitude(s)]
    ELSE [s EXCEPT !.frictionForce = 0]

\* the condition of the static friction check, lines 205-207
StaticLockApplies(s) ==
    /\ s.frictionEnabled
    /\ Abs(s.velocity) < MOVING_THRESHOLD
    /\ Abs(s.appliedForce) < (FrictionMagnitude(s) * 11) \div 10

\* lines 204-210
StaticFriction(s) ==
    IF StaticLockApplies(s)
    THEN [s EXCEPT !.frictionForce = -s.appliedForce]
    ELSE s

\* a drag that grows with the speed instead of its square
DragMagnitude_linear(v) ==
    LET mm == Abs(v) \div 10000
    IN  (AIR_DRAG_COEFFICIENT * mm * 1000) \div 10

\* AIR_DRAG_COEFFICIENT * velocity * velocity, line 214: the velocity is
\* taken in mm/s, so that (0.5 * mm^2 / 1e6) N = (5 * mm^2 / 10000) mN
DragMagnitude(v) ==
    LET mm == Abs(v) \div 10000
    IN  MulDiv(mm, AIR_DRAG_COEFFICIENT * mm, 10000)

\* lines 212-218
AirDrag(s) ==
    IF s.airDragEnabled /\ Abs(s.velocity) > MOVING_THRESHOLD
    THEN [s EXCEPT !.airDragForce = -Sign(s.velocity) * DragMagnitude(s.velocity)]
    ELSE [s EXCEPT !.airDragForce = 0]

\* the net force without the air drag term
NetForce_noDrag(s) ==
    [s EXCEPT !.netForce = s.appliedForce + s.frictionForce]

\* lines 220-223
NetForce(s) ==
    [s EXCEPT !.netForce = s.appliedForce + s.frictionForce + s.airDragForce]

\* lines 225-226
Acceleration(s) == [s EXCEPT !.acceleration = Quot(s.netForce, s.mass)]

\* lines 228-229
IntegrateVelocity(s, dt) ==
    [s EXCEPT !.velocity = s.velocity + s.acceleration * dt]

\* the clamp without its lower limit
ClampVelocity_upperOnly(s) ==
    [s EXCEPT !.velocity = Min(MAX_VELOCITY, s.velocity)]

\* lines 231-232
ClampVelocity(s) ==
    [s EXCEPT !.velocity = Max(-MAX_VELOCITY, Min(MAX_VELOCITY, s.velocity))]

\* the low-speed block without the stop
LowSpeedSnap_never(s) == s

\* the low-speed block stopping the sled whatever the flags say
LowSpeedSnap_always(s) ==
    IF Abs(s.velocity) < SLOW_THRESHOLD /\ s.thrustDirection = 0
    THEN IF Abs(s.velocity) < STOP_THRESHOLD
         THEN [s EXCEPT !.velocity = 0]
         ELSE s
    ELSE s

\* the low-speed block stopping the sled even while the thrust is on
LowSpeedSnap_ignoresThrust(s) ==
    IF Abs(s.velocity) < SLOW_THRESHOLD
    THEN IF ~s.frictionEnabled /\ ~s.airDragEnabled
         THEN s
         ELSE IF Abs(s.velocity) < STOP_THRESHOLD
              THEN [s EXCEPT !.velocity = 0]
              ELSE s
    ELSE s

\* the low-speed block stopping the sled only when both resistances are on
LowSpeedSnap_needsBoth(s) ==
    IF Abs(s.velocity) < SLOW_THRESHOLD /\ s.thrustDirection = 0
    THEN IF ~s.frictionEnabled \/ ~s.airDragEnabled
         THEN s
         ELSE IF Abs(s.velocity) < STOP_THRESHOLD
              THEN [s EXCEPT !.velocity = 0]
              ELSE s
    ELSE s

\* the low-speed block stopping the sled only below 0.01 m/s
LowSpeedSnap_narrowBand(s) ==
    IF Abs(s.velocity) < SLOW_THRESHOLD /\ s.thrustDirection = 0
    THEN IF ~s.frictionEnabled /\ ~s.airDragEnabled
         THEN s
         ELSE IF Abs(s.velocity) < MOVING_THRESHOLD
              THEN [s EXCEPT !.velocity = 0]
              ELSE s
    ELSE s

\* lines 234-244
LowSpeedSnap(s) ==
    IF Abs(s.velocity) < SLOW_THRESHOLD /\ s.thrustDirection = 0
    THEN IF ~s.frictionEnabled /\ ~s.airDragEnabled
         THEN s
         ELSE IF Abs(s.velocity) < STOP_THRESHOLD
              THEN [s EXCEPT !.velocity = 0]
              ELSE s
    ELSE s

\* lines 246-247 with the velocity from before line 229 (explicit Euler)
IntegratePosition_oldVelocity(s, dt) ==
    [s EXCEPT !.position =
        s.position + MulDiv(s.velocity - s.acceleration * dt, dt, 1000000)]

\* lines 246-247
IntegratePosition(s, dt) ==
    [s EXCEPT !.position = s.position + MulDiv(s.velocity, dt, 1000000)]

\* updatePhysics with lines 246-247 moved before the low-speed block
updatePhysics_positionBeforeSnap(s, dt) ==
    LET forces == NetForce(AirDrag(StaticFriction(KineticFriction(
                      ThrustForce(VerticalForces(s))))))
        moved  == ClampVelocity(IntegrateVelocity(Acceleration(forces), dt))
    IN  LowSpeedSnap(IntegratePosition(moved, dt))

updatePhysics(s, dt) ==
    LET forces == NetForce(AirDrag(StaticFriction(KineticFriction(
                      ThrustForce(VerticalForces(s))))))
        moved  == LowSpeedSnap(ClampVelocity(IntegrateVelocity(
                      Acceleration(forces), dt)))
    IN  IntegratePosition(moved, dt)

(***************************************************************************)
(* getPhysicsState, README.md lines 254-256.  An object handed to a caller *)
(* is [shared, obj, writes]: shared tells that it is the engine's own      *)
(* object (reads and writes through it reach physicsState), otherwise obj  *)
(* holds fields of its own; writes counts the caller's assignments.  The   *)
(* operator gives the engine state after the call and the object returned. *)
(* Every field is a number or a boolean, so the spread copies all of them. *)
(***************************************************************************)
\* return physicsState;
getPhysicsState_reference(s) ==
    [engine |-> s, result |-> [shared |-> TRUE, obj |-> s, writes |-> 0]]

\* line 255
getPhysicsState(s) ==
    [engine |-> s, result |-> [shared |-> FALSE, obj |-> s, writes |-> 0]]

\* what a caller reads through the object it holds
Fields(o, s) == IF o.shared THEN s ELSE o.obj

(***************************************************************************)
(* getSpeedPercentage and isInRedZone, README.md lines 262-272.  A         *)
(* percentage is kept in units of 1/PercentUnit %, which makes             *)
(* |velocity| / MAX_VELOCITY * 100 exact for every velocity of the model.  *)
(***************************************************************************)
PercentUnit == 5000000

\* line 263 without Math.abs
getSpeedPercentage_signed(s) == MulDiv(s.velocity, 100 * PercentUnit, MAX_VELOCITY)

\* line 263
getSpeedPercentage(s) == MulDiv(Abs(s.velocity), 100 * PercentUnit, MAX_VELOCITY)

\* line 271
isInRedZone(s) == getSpeedPercentage(s) > 80 * PercentUnit

(***************************************************************************)
(* setAppliedForceMagnitude: called by the controllers (main.js 141-147,   *)
(* visualization.js 678-684 and 1161), not defined in the engine listing;  *)
(* it stores max(0, m) as the commanded thrust magnitude.                  *)
(***************************************************************************)
setAppliedForceMagnitude(m) == Max(0, m)

\* the two modal dialogs (visualization.js 951-952)
Modals == {"helpModal", "quizModal"}

(***************************************************************************)
(* The state machine: the engine after module load (line 275), and one     *)
(* action per engine call.  op, dtArg and pre record the last call, its    *)
(* dt argument and the engine state it started from; dirArg is the         *)
(* argument of a setThrustDirection call that has just returned.           *)
(***************************************************************************)
Init ==
    /\ physicsState = resetPhysics(physicsStateLiteral)
    /\ appliedForceMagnitude = APPLIED_FORCE
    /\ op = "load"
    /\ dtArg = 0
    /\ dirArg = 0
    /\ pre = physicsStateLiteral
    /\ steps = 0
    /\ isRunning = TRUE
    /\ now = 0
    /\ lastTime = now
    /\ display = [m \in Modals |-> FALSE]
    /\ timers = <<>>
    /\ overspeed = FALSE
    /\ snapshot = <<>>
    /\ directionSlider = 0

Call(name, s) ==
    /\ physicsState' = s
    /\ op' = name
    /\ pre' = physicsState
    /\ dirArg' = IF name = "setThrustDirection" THEN dirArg' ELSE 0
    /\ UNCHANGED driverVars

ResetPhysics ==
    /\ Call("resetPhysics", resetPhysics(physicsState))
    /\ UNCHANGED <<appliedForceMagnitude, dtArg, steps>>

SetThrustDirection ==
    \E d \in DirectionInputs :
        /\ dirArg' = d
        /\ Call("setThrustDirection", setThrustDirection(physicsState, d))
        /\ UNCHANGED <<appliedForceMagnitude, dtArg, steps>>

SetFrictionEnabled ==
    \E b \in BOOLEAN :
        /\ Call("setFrictionEnabled", setFrictionEnabled(physicsState, b))
        /\ UNCHANGED <<appliedForceMagnitude, dtArg, steps>>

SetAirDragEnabled ==
    \E b \in BOOLEAN :
        /\ Call("setAirDragEnabled", setAirDragEnabled(physicsState, b))
        /\ UNCHANGED <<appliedForceMagnitude, dtArg, steps>>

SetAppliedForceMagnitude ==
    \E m \in MagnitudeInputs :
        /\ Call("setAppliedForceMagnitude", physicsState)
        /\ appliedForceMagnitude' = setAppliedForceMagnitude(m)
        /\ UNCHANGED <<dtArg, steps>>

UpdatePhysics ==
    \E dt \in DtValues :
        /\ steps < MaxSteps
        /\ Call("updatePhysics", updatePhysics(physicsState, dt))
        /\ dtArg' = dt
        /\ steps' = steps + 1
        /\ UNCHANGED appliedForceMagnitude

Next ==
    \/ ResetPhysics
    \/ SetThrustDirection
    \/ SetFrictionEnabled
    \/ SetAirDragEnabled
    \/ SetAppliedForceMagnitude
    \/ UpdatePhysics

Spec == Init /\ [][Next]_vars

(***************************************************************************)
(* The thrust reversal run (README.md line 34, "thrust reversal doesn't    *)
(* instantly reverse direction"): the sled is configured and driven for    *)
(* one long step, then full leftward thrust is commanded and updatePhysics *)
(* is called with frame-sized steps.                                       *)
(***************************************************************************)
\* number of updatePhysics calls in one reversal run
MaxReversalSteps == 5

\* the run-up step: 10 ms (to 0.04 m/s), 50 ms, 12.4 s (to 49.6 m/s) and
\* 13 s (into the clamp)
RevSetupDt == {100, 500, 124000, 130000}

\* the frame steps of the reversal: 1 ms, 2.5 ms, 50 ms
RevDt == {10, 25, 500}

RevConfigure ==
    /\ steps <= 1
    /\ \/ SetFrictionEnabled
       \/ SetAirDragEnabled
       \/ steps = 0 /\ SetThrustDirection

RevSetup ==
    \E dt \in RevSetupDt :
        /\ steps = 0
        /\ physicsState.thrustDirection # 0
        /\ Call("updatePhysics", updatePhysics(physicsState, dt))
        /\ dtArg' = dt
        /\ steps' = 1
        /\ UNCHANGED appliedForceMagnitude

RevCommand ==
    /\ steps = 1
    /\ physicsState.thrustDirection # -1
    /\ SetThrustDirection
    /\ physicsState'.thrustDirection = -1

RevStep ==
    \E dt \in RevDt :
        /\ steps >= 1
        /\ steps < MaxReversalSteps
        /\ physicsState.thrustDirection = -1
        /\ Call("updatePhysics", updatePhysics(physicsState, dt))
        /\ dtArg' = dt
        /\ steps' = steps + 1
        /\ UNCHANGED appliedForceMagnitude

NextReversal ==
    \/ RevConfigure
    \/ RevSetup
    \/ RevCommand
    \/ RevStep

SpecReversal == Init /\ [][NextReversal]_vars

(***************************************************************************)
(* The worked run of ten equal steps: the engine is configured once after  *)
(* load and updatePhysics is then called with dt = 0.1 s.                  *)
(***************************************************************************)
\* number of updatePhysics calls in the run
MaxExampleSteps == 10

\* the step of the run, 0.1 s
ExampleDt == {1000}

ExConfigure ==
    /\ steps = 0
    /\ \/ SetThrustDirection
       \/ SetFrictionEnabled
       \/ SetAirDragEnabled

ExStep ==
    \E dt \in ExampleDt :
        /\ steps < MaxExampleSteps
        /\ Call("updatePhysics", updatePhysics(physicsState, dt))
        /\ dtArg' = dt
        /\ steps' = steps + 1
        /\ UNCHANGED appliedForceMagnitude

NextExample ==
    \/ ExConfigure
    \/ ExStep

SpecExample == Init /\ [][NextExample]_vars

(***************************************************************************)
(* The engine driven by its setters and updatePhysics, with the derived    *)
(* query getSpeedPercentage called between them.                           *)
(***************************************************************************)
\* number of updatePhysics calls in a behaviour with queries
MaxQuerySteps == 2

\* the step of the engine: 2.5 ms, 50 ms, 13 s (into the clamp)
QueryDt == {25, 500, 130000}

QueryConfigure ==
    \/ SetThrustDirection
    \/ SetFrictionEnabled
    \/ SetAirDragEnabled
    \/ ResetPhysics

QueryStep ==
    \E dt \in QueryDt :
        /\ steps < MaxQuerySteps
        /\ Call("updatePhysics", updatePhysics(physicsState, dt))
        /\ dtArg' = dt
        /\ steps' = steps + 1
        /\ UNCHANGED appliedForceMagnitude

\* lines 262-264: the body is one return expression, nothing is assigned
GetSpeedPercentage ==
    /\ getSpeedPercentage(physicsState) \in Int
    /\ Call("getSpeedPercentage", physicsState)
    /\ UNCHANGED <<appliedForceMagnitude, dtArg, steps>>

NextQuery ==
    \/ QueryConfigure
    \/ QueryStep
    \/ GetSpeedPercentage

SpecQuery == Init /\ [][NextQuery]_vars

(***************************************************************************)
(* Coasting: the sled is configured and driven for one step, then the      *)
(* thrust is released and updatePhysics is called with frame-sized steps.  *)
(***************************************************************************)
\* number of updatePhysics calls in one coasting run
MaxCoastSteps == 4

\* the driven step, which from rest ends at 4 m/s^2 * dt: 0.006, 0.02, 0.04,
\* 0.05, 0.08, 0.1, 0.2, 10 and 50 m/s (the clamp)
CoastSetupDt == {15, 50, 100, 125, 200, 250, 500, 25000, 130000}

\* the frame steps of the coasting: none, 1 ms, 25 ms, 50 ms
CoastDt == {0, 10, 250, 500}

CoastConfigure ==
    /\ steps <= 1
    /\ \/ SetFrictionEnabled
       \/ SetAirDragEnabled
       \/ steps = 0 /\ SetThrustDirection

CoastSetup ==
    \E dt \in CoastSetupDt :
        /\ steps = 0
        /\ physicsState.thrustDirection # 0
        /\ Call("updatePhysics", updatePhysics(physicsState, dt))
        /\ dtArg' = dt
        /\ steps' = 1
        /\ UNCHANGED appliedForceMagnitude

CoastRelease ==
    /\ steps = 1
    /\ physicsState.thrustDirection # 0
    /\ SetThrustDirection
    /\ physicsState'.thrustDirection = 0

CoastStep ==
    \E dt \in CoastDt :
        /\ steps >= 1
        /\ steps < MaxCoastSteps
        /\ physicsState.thrustDirection = 0
        /\ Call("updatePhysics", updatePhysics(physicsState, dt))
        /\ dtArg' = dt
        /\ steps' = steps + 1
        /\ UNCHANGED appliedForceMagnitude

NextCoast ==
    \/ CoastConfigure
    \/ CoastSetup
    \/ CoastRelease
    \/ CoastStep

SpecCoast == Init /\ [][NextCoast]_vars

(***************************************************************************)
(* Coasting to a stop: as above, but every step after the release has the  *)
(* same dt, and the frame loop keeps calling updatePhysics (main.js 228     *)
(* re-requests a frame at the end of every frame).                         *)
(***************************************************************************)
\* number of updatePhysics calls in one run to a stop
MaxStopSteps == 1400

\* the fixed frame step: 25 ms, 50 ms
StopDt == {250, 500}

StopStep ==
    \E dt \in StopDt :
        /\ steps >= 1
        /\ steps < MaxStopSteps
        /\ physicsState.thrustDirection = 0
        /\ steps > 1 => dt = dtArg
        /\ Call("updatePhysics", updatePhysics(physicsState, dt))
        /\ dtArg' = dt
        /\ steps' = steps + 1
        /\ UNCHANGED appliedForceMagnitude

NextStop ==
    \/ CoastConfigure
    \/ CoastSetup
    \/ CoastRelease
    \/ StopStep

\* the frame the loop has requested takes place: a step of the run that
\* calls updatePhysics (within NextStop, a StopStep)
RequestedFrame ==
    /\ steps >= 1
    /\ steps < MaxStopSteps
    /\ physicsState.thrustDirection = 0
    /\ steps' = steps + 1

SpecStop == Init /\ [][NextStop]_vars /\ WF_steps(RequestedFrame)

(***************************************************************************)
(* A caller of getPhysicsState that assigns to fields of the object it     *)
(* got (an assignment state.f = x in a caller), between engine calls.      *)
(***************************************************************************)
\* number of updatePhysics calls in a behaviour with a snapshot
MaxSnapshotSteps == 1

\* number of assignments a caller makes to one returned object
MaxWrites == 2

\* the step of the engine, 50 ms and 13 s
SnapshotDt == {500, 130000}

BooleanFields == {"frictionEnabled", "airDragEnabled"}

SnapConfigure ==
    /\ steps = 0
    /\ \/ SetThrustDirection
       \/ SetFrictionEnabled
       \/ SetAirDragEnabled

SnapStep ==
    \E dt \in SnapshotDt :
        /\ steps < MaxSnapshotSteps
        /\ Call("updatePhysics", updatePhysics(physicsState, dt))
        /\ dtArg' = dt
        /\ steps' = steps + 1
        /\ UNCHANGED appliedForceMagnitude

GetPhysicsState ==
    LET r == getPhysicsState(physicsState)
    IN  /\ physicsState' = r.engine
        /\ snapshot' = <<r.result>>
        /\ op' = "getPhysicsState"
        /\ pre' = physicsState
        /\ dirArg' = 0
        /\ UNCHANGED <<appliedForceMagnitude, dtArg, steps, isRunning,
                       lastTime, now, display, timers, overspeed,
                       directionSlider>>

\* state.f = x: a number is replaced by another number, a flag by the
\* other flag
WriteField(f) ==
    LET o == snapshot[1]
        old == Fields(o, physicsState)
        new == [old EXCEPT ![f] = IF f \in BooleanFields THEN ~old[f]
                                                         ELSE old[f] + 1]
    IN  /\ o.writes < MaxWrites
        /\ physicsState' = IF o.shared THEN new ELSE physicsState
        /\ snapshot' = <<[o EXCEPT !.obj = new, !.writes = o.writes + 1]>>
        /\ op' = "writeField"
        /\ pre' = physicsState
        /\ dirArg' = 0
        /\ UNCHANGED <<appliedForceMagnitude, dtArg, steps, isRunning,
                       lastTime, now, display, timers, overspeed,
                       directionSlider>>

MutateSnapshot ==
    /\ snapshot # <<>>
    /\ \E f \in DOMAIN physicsState : WriteField(f)

NextSnapshot ==
    \/ SnapConfigure
    \/ SnapStep
    \/ GetPhysicsState
    \/ MutateSnapshot

SpecSnapshot == Init /\ [][NextSnapshot]_vars

(***************************************************************************)
(* The controller's frame loop, pause toggle and modals (visualization.js  *)
(* 838-856 and 938-999; main.js 211-229 and 304-309 are the same loop      *)
(* without modals).  Timestamps, whether passed to a frame callback or     *)
(* read with performance.now(), come from one clock that never runs        *)
(* backwards; they are kept in units of 0.1 ms, so (currentTime -          *)
(* lastTime) / 1000 in seconds is their difference in the model's time     *)
(* unit.                                                                   *)
(***************************************************************************)
\* number of updatePhysics calls made by the loop
MaxFrames == 2

\* the latest timestamp of a behaviour (0.4 s)
MaxClock == 4000

\* number of closeModal timeouts pending at once
MaxTimers == 2

\* time between two events: none, 40 ms, 300 ms
Elapsed == {0, 400, 3000}

\* the cap of line 845, 0.05 s
DtCap == 500

\* the delay of closeModal's timeout, 300 ms
CloseDelay == 3000

Later == {t \in {now + d : d \in Elapsed} : t <= MaxClock}

\* line 845 without Math.min
FrameDt_uncapped(currentTime, last) == currentTime - last

\* line 845
FrameDt(currentTime, last) == Min(currentTime - last, DtCap)

UnchangedEngine ==
    UNCHANGED <<physicsState, appliedForceMagnitude, op, dtArg, dirArg, pre,
                steps>>

\* the alert speed of line 893, 48 m/s
DANGER_SPEED == 480000000

\* lines 861-899, the alarm part (892-897): whether the gauge gets the
\* class 'danger'
updateDisplays(s) ==
    LET state == Fields(getPhysicsState(s).result, s)
    IN  Abs(state.velocity) > DANGER_SPEED

\* lines 1262-1283, the alarm part (1276-1281): whether the speed bar gets
\* the class 'red-zone'
updateSpeedDisplay(s) == isInRedZone(s)

\* lines 838-856, and 1239-1257 where the display is refreshed by
\* updateSpeedDisplay; edition tells which of the two loops runs
physicsLoop(currentTime, edition) ==
    /\ now' = currentTime
    /\ IF ~isRunning
       THEN /\ UnchangedEngine
            /\ UNCHANGED <<isRunning, lastTime, display, timers, overspeed,
                           snapshot, directionSlider>>
       ELSE LET dt == FrameDt(currentTime, lastTime)
            IN  /\ lastTime' = currentTime
                /\ physicsState' = updatePhysics(physicsState, dt)
                /\ op' = "updatePhysics"
                /\ pre' = physicsState
                /\ dtArg' = dt
                /\ dirArg' = 0
                /\ steps' = steps + 1
                /\ overspeed' = IF edition = "gauge"
                                THEN updateDisplays(physicsState')
                                ELSE updateSpeedDisplay(physicsState')
                /\ UNCHANGED <<appliedForceMagnitude, isRunning, display,
                               timers, snapshot, directionSlider>>

PhysicsLoop ==
    \E currentTime \in Later :
        /\ isRunning => steps < MaxFrames
        /\ physicsLoop(currentTime, "gauge")

\* toggleSimulation without line 941
ToggleSimulation_keepsLastTime ==
    \E t \in Later :
        /\ now' = t
        /\ isRunning' = ~isRunning
        /\ UNCHANGED <<lastTime, display, timers, overspeed, snapshot,
                       directionSlider>>
        /\ UnchangedEngine

\* lines 938-943
ToggleSimulation ==
    \E t \in Later :
        /\ now' = t
        /\ isRunning' = ~isRunning
        /\ lastTime' = IF isRunning' THEN t ELSE lastTime
        /\ UNCHANGED <<display, timers, overspeed, snapshot, directionSlider>>
        /\ UnchangedEngine

\* lines 981-988, from the help and quiz buttons (955-964); the 10 ms
\* timeout only adds a style class
OpenModal ==
    \E t \in Later, m \in Modals :
        /\ now' = t
        /\ display' = [display EXCEPT ![m] = TRUE]
        /\ isRunning' = FALSE
        /\ UNCHANGED <<lastTime, timers, overspeed, snapshot, directionSlider>>
        /\ UnchangedEngine

\* lines 990-999, the part that runs at once: the timeout is queued
closeModal(q, m, t) == Append(q, [modal |-> m, due |-> t + CloseDelay])

\* lines 967-972: a close button closes both modals
CloseButton ==
    \E t \in Later :
        /\ \E m \in Modals : display[m]
        /\ Len(timers) + 2 <= MaxTimers
        /\ now' = t
        /\ timers' = closeModal(closeModal(timers, "helpModal", t),
                                "quizModal", t)
        /\ UNCHANGED <<isRunning, lastTime, display, overspeed, snapshot,
                       directionSlider>>
        /\ UnchangedEngine

\* lines 975-978 (a click on the backdrop) and 1052-1054 (closeQuiz)
CloseOne ==
    \E t \in Later, m \in Modals :
        /\ display[m]
        /\ Len(timers) + 1 <= MaxTimers
        /\ now' = t
        /\ timers' = closeModal(timers, m, t)
        /\ UNCHANGED <<isRunning, lastTime, display, overspeed, snapshot,
                       directionSlider>>
        /\ UnchangedEngine

\* lines 993-998: the timeout of the oldest closeModal fires
CloseTimeout ==
    \E t \in Later :
        /\ timers # <<>>
        /\ t >= Head(timers).due
        /\ now' = t
        /\ display' = [display EXCEPT ![Head(timers).modal] = FALSE]
        /\ isRunning' = TRUE
        /\ lastTime' = t
        /\ timers' = Tail(timers)
        /\ UNCHANGED <<overspeed, snapshot, directionSlider>>
        /\ UnchangedEngine

\* the frame loop and the modals alone, without the pause toggle
NextModal ==
    \/ PhysicsLoop
    \/ OpenModal
    \/ CloseButton
    \/ CloseOne
    \/ CloseTimeout

SpecModal == Init /\ [][NextModal]_vars

(***************************************************************************)
(* A long run of the loop with every frame 50 ms after the last, from      *)
(* rest up to 49 m/s, with the display of either edition.                  *)
(***************************************************************************)
\* number of frames of the run
MaxDisplayFrames == 245

DisplayConfigure ==
    /\ steps = 0
    /\ \/ SetThrustDirection
       \/ SetFrictionEnabled
       \/ SetAirDragEnabled

\* a frame of the edition with the velocimeter gauge (lines 838-899)
GaugeFrame ==
    /\ steps < MaxDisplayFrames
    /\ physicsLoop(now + DtCap, "gauge")

\* a frame of the edition with the speed bar (lines 1239-1283)
SpeedBarFrame ==
    /\ steps < MaxDisplayFrames
    /\ physicsLoop(now + DtCap, "speedBar")

NextDisplay ==
    \/ DisplayConfigure
    \/ GaugeFrame
    \/ SpeedBarFrame

SpecDisplay == Init /\ [][NextDisplay]_vars

NextDriver ==
    \/ PhysicsLoop
    \/ ToggleSimulation
    \/ OpenModal
    \/ CloseButton
    \/ CloseOne
    \/ CloseTimeout

SpecDriver == Init /\ [][NextDriver]_vars

(***************************************************************************)
(* The controller's thrust controls (visualization.js): the direction      *)
(* slider (578-581), the keyboard (696-727) and the worksheet scenarios    *)
(* (765-833).  The slider element keeps the value assigned to it.          *)
(***************************************************************************)
\* values the user drags the slider to, in the range of the comment at
\* line 668 (-100 to 100)
SliderInputs == {-100, -55, 0, 5, 100}

\* line 513, in N
maxForce == 2000

\* line 699
KeyStep == 10

\* lines 706 and 713
KeyLimit == 100

LeftKeys == {"ArrowLeft", "a", "A"}

RightKeys == {"ArrowRight", "d", "D"}

Keys == LeftKeys \cup RightKeys \cup {" "}

Scenarios == {"no-forces", "friction-only", "air-only", "all-forces",
              "terminal-velocity", "equilibrium"}

\* Math.round of a / b for b > 0: the nearest integer, halves upwards
Round(a, b) == (2 * a + b) \div (2 * b)

\* lines 672-673, in N
actualForce(sliderValue) == Round(sliderValue * maxForce, 1000)

\* lines 670-691: the engine state and the commanded magnitude (in mN)
\* after the call
updateForceFromSlider(s, sliderValue) ==
    IF sliderValue > 0
    THEN [engine |-> setThrustDirection(s, 1),
          magnitude |->
              setAppliedForceMagnitude(Abs(actualForce(sliderValue)) * 1000)]
    ELSE IF sliderValue < 0
         THEN [engine |-> setThrustDirection(s, -1),
               magnitude |->
                   setAppliedForceMagnitude(
                       Abs(actualForce(sliderValue)) * 1000)]
         ELSE [engine |-> setThrustDirection(s, 0),
               magnitude |-> setAppliedForceMagnitude(0)]

\* what a handler named name leaves behind when the engine state and the
\* commanded magnitude are r
Control(name, r) ==
    /\ physicsState' = r.engine
    /\ appliedForceMagnitude' = r.magnitude
    /\ op' = name
    /\ pre' = physicsState
    /\ dirArg' = 0
    /\ UNCHANGED <<dtArg, steps, isRunning, lastTime, now, display, timers,
                   snapshot>>

\* lines 578-581
SliderInput ==
    \E value \in SliderInputs :
        /\ directionSlider' = value
        /\ Control("input", updateForceFromSlider(physicsState, value))
        /\ UNCHANGED overspeed

\* lines 696-720: the value handleKeyDown gives the slider
keyValue(key, currentValue) ==
    IF key \in LeftKeys THEN Max(-KeyLimit, currentValue - KeyStep)
    ELSE IF key \in RightKeys THEN Min(KeyLimit, currentValue + KeyStep)
    ELSE 0

\* lines 696-727, for the thrust keys
HandleKeyDown ==
    \E key \in Keys :
        LET currentValue == keyValue(key, directionSlider)
        IN  /\ directionSlider' = currentValue
            /\ Control(key, updateForceFromSlider(physicsState, currentValue))
            /\ UNCHANGED overspeed

\* lines 772-829: the toggles and the slider value of a scenario
scenarioFriction(scenario) ==
    scenario \in {"friction-only", "all-forces", "equilibrium"}

scenarioAirDrag(scenario) ==
    scenario \in {"air-only", "all-forces", "terminal-velocity", "equilibrium"}

scenarioSlider(scenario) ==
    IF scenario = "terminal-velocity" THEN 800
    ELSE IF scenario = "equilibrium" THEN 375
    ELSE 0

\* lines 765-833
LoadScenario ==
    \E scenario \in Scenarios :
        LET configured ==
                setAirDragEnabled(
                    setFrictionEnabled(resetPhysics(physicsState),
                                       scenarioFriction(scenario)),
                    scenarioAirDrag(scenario))
            value == scenarioSlider(scenario)
        IN  /\ directionSlider' = value
            /\ Control("loadScenario",
                       IF value # 0
                       THEN updateForceFromSlider(configured, value)
                       ELSE [engine |-> configured,
                             magnitude |-> appliedForceMagnitude])
            /\ overspeed' = updateDisplays(physicsState')

NextControls ==
    \/ SliderInput
    \/ HandleKeyDown
    \/ LoadScenario

SpecControls == Init /\ [][NextControls]_vars

TypeOK ==
    /\ physicsState.thrustDirection \in {-1, 0, 1}
    /\ physicsState.frictionEnabled \in BOOLEAN
    /\ physicsState.airDragEnabled \in BOOLEAN
    /\ steps \in 0..MaxSteps

(***************************************************************************)
(* Properties.  A state with op = "updatePhysics" is the state right after *)
(* an updatePhysics(dtArg) call that started in state pre.                 *)
(***************************************************************************)
AfterUpdate == op = "updatePhysics"

\* the engine has recomputed or zeroed its forces and no setter ran since
ForcesFresh == op \in {"load", "resetPhysics", "updatePhysics"}

\* C1: in every reachable state the stored velocity lies in
\* [-MAX_VELOCITY, MAX_VELOCITY].
C1_VelocityBounded ==
    /\ -MAX_VELOCITY <= physicsState.velocity
    /\ physicsState.velocity <= MAX_VELOCITY

\* an update whose integrated velocity left the range and was clamped
C1_Witness ==
    /\ AfterUpdate
    /\ pre.velocity + physicsState.acceleration * dtArg < -MAX_VELOCITY
    /\ physicsState.velocity = -MAX_VELOCITY

\* C2: in every reachable state normalForce equals gravityForce and both
\* equal mass * GRAVITY.
C2_VerticalForces ==
    /\ physicsState.normalForce = physicsState.gravityForce
    /\ physicsState.gravityForce = physicsState.mass * GRAVITY

\* a reset that follows an update
C2_Witness ==
    /\ op = "resetPhysics"
    /\ steps > 0
    /\ physicsState.normalForce = SLED_MASS * GRAVITY

\* C3 as stated: in every reachable state a resistance force is 0 when its
\* enable flag is false.
C3_Original ==
    /\ ~physicsState.frictionEnabled => physicsState.frictionForce = 0
    /\ ~physicsState.airDragEnabled => physicsState.airDragForce = 0

\* C3 amended: right after updatePhysics or resetPhysics (before a setter
\* runs again) a resistance force is 0 when its enable flag is false.
C3_ForcesZeroWhenDisabled == ForcesFresh => C3_Original

\* a moving sled updated with friction off and drag on
C3_Witness ==
    /\ AfterUpdate
    /\ Abs(pre.velocity) > MOVING_THRESHOLD
    /\ ~physicsState.frictionEnabled
    /\ physicsState.frictionForce = 0
    /\ physicsState.airDragEnabled
    /\ physicsState.airDragForce # 0

C5_NetForceIsSum ==
    physicsState.netForce = physicsState.appliedForce
                            + physicsState.frictionForce
                            + physicsState.airDragForce

\* an update in which all three forces act
C5_Witness ==
    /\ AfterUpdate
    /\ physicsState.appliedForce # 0
    /\ physicsState.frictionForce # 0
    /\ physicsState.airDragForce # 0
    /\ C5_NetForceIsSum

\* C6: after updatePhysics with the thrust on, |appliedForce| is the
\* magnitude most recently commanded through setAppliedForceMagnitude.
C6_CommandedMagnitudeUsed ==
    (AfterUpdate /\ physicsState.thrustDirection # 0)
        => Abs(physicsState.appliedForce) = appliedForceMagnitude

C8_LockedSledStays ==
    (AfterUpdate /\ StaticLockApplies(ThrustForce(VerticalForces(pre))))
        => /\ physicsState.position = pre.position
           /\ pre.velocity = 0 => physicsState.velocity = 0

\* a sled creeping below 0.01 m/s that the call holds in place
C8_Witness ==
    /\ AfterUpdate
    /\ StaticLockApplies(ThrustForce(VerticalForces(pre)))
    /\ pre.velocity # 0
    /\ dtArg > 0
    /\ physicsState.position = pre.position

\* C9: with no thrust and both resistances off, updatePhysics(dt) keeps
\* velocity at its previous value v0 and moves position by v0 * dt.
C9_Coasting ==
    (/\ AfterUpdate
     /\ pre.thrustDirection = 0
     /\ ~pre.frictionEnabled
     /\ ~pre.airDragEnabled)
        => /\ physicsState.velocity = pre.velocity
           /\ physicsState.position
                  = pre.position + MulDiv(pre.velocity, dtArg, 1000000)
           /\ pre.velocity = 0 => physicsState.position = pre.position

\* a sled coasting below 0.05 m/s that keeps moving
C9_Witness ==
    /\ AfterUpdate
    /\ pre.thrustDirection = 0
    /\ ~pre.frictionEnabled
    /\ ~pre.airDragEnabled
    /\ pre.velocity # 0
    /\ Abs(pre.velocity) < STOP_THRESHOLD
    /\ physicsState.velocity = pre.velocity
    /\ physicsState.position # pre.position

\* C10: an updatePhysics call that starts with friction enabled and
\* |velocity| > 0.01 ends with |frictionForce| =
\* FRICTION_COEFFICIENT * normalForce, directed against that velocity.
C10_KineticFrictionOpposes ==
    (AfterUpdate /\ pre.frictionEnabled /\ Abs(pre.velocity) > MOVING_THRESHOLD)
        => /\ Abs(physicsState.frictionForce) * 100
                  = FRICTION_COEFFICIENT * physicsState.normalForce
           /\ pre.velocity > 0 => physicsState.frictionForce < 0
           /\ pre.velocity < 0 => physicsState.frictionForce > 0

\* a sled moving left whose friction points right
C10_Witness ==
    /\ AfterUpdate
    /\ pre.frictionEnabled
    /\ pre.velocity < -MOVING_THRESHOLD
    /\ physicsState.frictionForce > 0


\* C11: an updatePhysics call that starts with air drag enabled and
\* |velocity| = |v| > 0.01 ends with |airDragForce| =
\* AIR_DRAG_COEFFICIENT * v^2, directed against v; any other call ends
\* with airDragForce = 0; the drag never pushes along v.  The magnitude is
\* stated between the values for v rounded down and up to 1 cm/s, and
\* exactly where v is a multiple of 0.1 m/s.
C11_DragLaw ==
    AfterUpdate =>
        LET v  == pre.velocity
            f  == physicsState.airDragForce
            cm == Abs(v) \div 100000
            dm == Abs(v) \div 1000000
        IN  /\ Sign(f) * Sign(v) <= 0
            /\ (pre.airDragEnabled /\ Abs(v) > MOVING_THRESHOLD)
                   => /\ AIR_DRAG_COEFFICIENT * cm * cm <= 100 * (Abs(f) + 1)
                      /\ 100 * Abs(f)
                             <= AIR_DRAG_COEFFICIENT * (cm + 1) * (cm + 1)
                      /\ f # 0 => Sign(f) = -Sign(v)
                      /\ Abs(v) % 1000000 = 0
                             => Abs(f) * 10 = AIR_DRAG_COEFFICIENT * dm * dm * 10
            /\ ~(pre.airDragEnabled /\ Abs(v) > MOVING_THRESHOLD) => f = 0

\* a sled moving left at 0.2 m/s whose drag of 0.02 N points right
C11_Witness ==
    /\ AfterUpdate
    /\ pre.airDragEnabled
    /\ pre.velocity = -2000000
    /\ physicsState.airDragForce = 20


\* C12: resetPhysics zeroes position, velocity, acceleration, the four
\* horizontal forces and thrustDirection, sets gravityForce = normalForce =
\* mass * GRAVITY, and leaves both enable flags and mass as they were.
C12_ResetEffect ==
    op = "resetPhysics" =>
        /\ physicsState.position = 0
        /\ physicsState.velocity = 0
        /\ physicsState.acceleration = 0
        /\ physicsState.appliedForce = 0
        /\ physicsState.frictionForce = 0
        /\ physicsState.airDragForce = 0
        /\ physicsState.netForce = 0
        /\ physicsState.thrustDirection = 0
        /\ physicsState.gravityForce = physicsState.mass * GRAVITY
        /\ physicsState.normalForce = physicsState.mass * GRAVITY
        /\ physicsState.frictionEnabled = pre.frictionEnabled
        /\ physicsState.airDragEnabled = pre.airDragEnabled
        /\ physicsState.mass = pre.mass

\* a reset of a moving sled with thrust and friction acting
C12_Witness ==
    /\ op = "resetPhysics"
    /\ pre.position # 0
    /\ pre.velocity # 0
    /\ pre.appliedForce # 0
    /\ pre.frictionForce # 0
    /\ pre.thrustDirection # 0
    /\ pre.frictionEnabled
    /\ physicsState.frictionEnabled
    /\ physicsState.velocity = 0

\* C13: a resetPhysics call that directly follows a resetPhysics call
\* leaves the whole state as the first call left it.
C13_ResetIdempotent ==
    [][(op = "resetPhysics" /\ op' = "resetPhysics")
          => /\ physicsState' = physicsState
             /\ appliedForceMagnitude' = appliedForceMagnitude]_vars

\* a second reset in a row, after the sled had been driven
C13_Witness ==
    /\ op = "resetPhysics"
    /\ pre = physicsState
    /\ steps > 0
    /\ physicsState.frictionEnabled

\* C14: setThrustDirection(d) stores sign(d) and changes no other field;
\* thrustDirection is -1, 0 or 1 in every reachable state.
C14_ThrustDirectionIsSign ==
    /\ physicsState.thrustDirection \in {-1, 0, 1}
    /\ op = "setThrustDirection" =>
           /\ dirArg > 0 => physicsState.thrustDirection = 1
           /\ dirArg < 0 => physicsState.thrustDirection = -1
           /\ dirArg = 0 => physicsState.thrustDirection = 0
           /\ physicsState
                  = [pre EXCEPT !.thrustDirection = physicsState.thrustDirection]

\* setThrustDirection(-2) on a moving sled whose thrust was on to the right
C14_Witness ==
    /\ op = "setThrustDirection"
    /\ dirArg = -2
    /\ pre.thrustDirection = 1
    /\ physicsState.thrustDirection = -1
    /\ physicsState.velocity # 0

\* C15: setFrictionEnabled and setAirDragEnabled change their own flag and
\* nothing else: the stored forces, acceleration, velocity and position
\* are what they were before the call.
C15_EnableSettersFrame ==
    /\ op = "setFrictionEnabled" =>
           physicsState
               = [pre EXCEPT !.frictionEnabled = physicsState.frictionEnabled]
    /\ op = "setAirDragEnabled" =>
           physicsState
               = [pre EXCEPT !.airDragEnabled = physicsState.airDragEnabled]

\* friction switched off while its force of 735 N is stored
C15_Witness ==
    /\ op = "setFrictionEnabled"
    /\ pre.frictionEnabled
    /\ ~physicsState.frictionEnabled
    /\ physicsState.frictionForce # 0


\* C16: with thrustDirection = -1, for any flags and any dt in (0, 0.05],
\* updatePhysics strictly decreases velocity until it is -MAX_VELOCITY,
\* also from 0 and from the band below 0.05 m/s (no snap, no hold), and
\* changes it by at most |acceleration| * dt.
C16_ThrustReversal ==
    (AfterUpdate /\ pre.thrustDirection = -1 /\ dtArg > 0 /\ dtArg <= 500)
        => /\ pre.velocity > -MAX_VELOCITY
                  => physicsState.velocity < pre.velocity
           /\ pre.velocity = -MAX_VELOCITY
                  => physicsState.velocity = -MAX_VELOCITY
           /\ Abs(physicsState.velocity - pre.velocity)
                  <= Abs(physicsState.acceleration) * dtArg
           /\ Abs(pre.velocity) < STOP_THRESHOLD
                  => physicsState.velocity
                         = pre.velocity + physicsState.acceleration * dtArg

\* a frame step that takes the sled from rightward to leftward motion
\* while friction and drag are on
C16_Witness ==
    /\ AfterUpdate
    /\ steps >= 2
    /\ pre.thrustDirection = -1
    /\ pre.frictionEnabled
    /\ pre.airDragEnabled
    /\ pre.velocity > 0
    /\ physicsState.velocity < 0

\* C17: in the run from the reset state with thrust +1 (2000 N on 500 kg),
\* friction and drag off, and steps of 0.1 s, every step has acceleration
\* 4 m/s^2, the velocity after step i is 0.4*i m/s, each step moves the sled
\* by the already updated velocity times 0.1 s, and the position after step
\* i is the sum 0.04*(1 + ... + i) m: 4.0 m/s and 2.2 m after step 10.
C17_EndToEnd ==
    (/\ AfterUpdate
     /\ physicsState.thrustDirection = 1
     /\ ~physicsState.frictionEnabled
     /\ ~physicsState.airDragEnabled)
        => /\ dtArg = 1000
           /\ physicsState.acceleration = 4000
           /\ physicsState.velocity = 4000000 * steps
           /\ physicsState.position =
                  pre.position + physicsState.velocity \div 1000
           /\ physicsState.position = 2000 * steps * (steps + 1)
           /\ steps = 10 => /\ physicsState.velocity = 40000000
                            /\ physicsState.position = 220000

C17_Witness ==
    /\ AfterUpdate
    /\ steps = 10
    /\ physicsState.thrustDirection = 1
    /\ ~physicsState.frictionEnabled
    /\ ~physicsState.airDragEnabled
    /\ physicsState.velocity = 40000000
    /\ physicsState.position = 220000

\* C18: every dt the frame loop passes to updatePhysics satisfies
\* 0 <= dt <= 0.05 s, whatever the order of frames, pauses, resumes and
\* modal openings and closings, when timestamps never decrease.
C18_DtClamped ==
    AfterUpdate => (0 <= dtArg /\ dtArg <= DtCap)

\* a frame that came more than 50 ms after the timestamp the loop had
\* recorded (no two timestamps are exactly 50 ms apart), with no modal
\* shown or closing: the cap is what was passed
C18_Witness ==
    /\ AfterUpdate
    /\ now = lastTime
    /\ now >= CloseDelay
    /\ timers = <<>>
    /\ \A m \in Modals : ~display[m]
    /\ dtArg = DtCap

\* C19: getPhysicsState changes no engine field and returns an object
\* with the value of every field; an assignment a caller makes to any field
\* of the returned object leaves every engine field as it was.
C19_SnapshotIsCopy ==
    /\ op = "getPhysicsState"
           => /\ physicsState = pre
              /\ Fields(snapshot[1], physicsState) = pre
    /\ op = "writeField" => physicsState = pre

\* a caller has written to an object it got before the sled was driven
\* to a speed; the object and the engine now differ
C19_Witness ==
    /\ op = "writeField"
    /\ steps >= 1
    /\ physicsState.velocity # 0
    /\ snapshot[1].writes = MaxWrites
    /\ snapshot[1].obj.velocity # physicsState.velocity
    /\ snapshot[1].obj.frictionEnabled # physicsState.frictionEnabled

\* C20: isInRedZone is true exactly when |velocity| / MAX_VELOCITY * 100
\* exceeds 80, that is when |velocity| > 40 m/s, and in every state the
\* overspeed styling the display shows is on exactly when isInRedZone is
\* true.
C20_RedZoneShown ==
    /\ isInRedZone(physicsState) <=> Abs(physicsState.velocity) > 400000000
    /\ overspeed <=> isInRedZone(physicsState)

\* C21: in every reachable state getSpeedPercentage returns a value in
\* [0, 100], and a call of it leaves every field of the engine state as it
\* was.
C21_PercentageInRange ==
    /\ 0 <= getSpeedPercentage(physicsState)
    /\ getSpeedPercentage(physicsState) <= 100 * PercentUnit
    /\ op = "getSpeedPercentage" => physicsState = pre

\* the query is called with the sled moving left at the clamp: 100 %
C21_Witness ==
    /\ op = "getSpeedPercentage"
    /\ physicsState.velocity = -MAX_VELOCITY
    /\ getSpeedPercentage(physicsState) = 100 * PercentUnit

\* the velocity of an updatePhysics call after line 232: the old velocity
\* plus acceleration * dt, clamped to [-MAX_VELOCITY, MAX_VELOCITY]
ClampedVelocity ==
    Max(-MAX_VELOCITY,
        Min(MAX_VELOCITY, pre.velocity + physicsState.acceleration * dtArg))

\* C22: updatePhysics ends with velocity 0 in place of the clamped velocity
\* exactly when thrustDirection = 0, friction or air drag is enabled and
\* the clamped velocity is below 0.05 m/s in magnitude; in every other case
\* it ends with the clamped velocity.
C22_LowSpeedSnap ==
    AfterUpdate =>
        physicsState.velocity =
            IF /\ physicsState.thrustDirection = 0
               /\ physicsState.frictionEnabled \/ physicsState.airDragEnabled
               /\ Abs(ClampedVelocity) < STOP_THRESHOLD
            THEN 0
            ELSE ClampedVelocity

\* a coasting sled with only air drag on, moving at less than 0.05 m/s, is
\* stopped by the step
C22_Witness ==
    /\ AfterUpdate
    /\ physicsState.thrustDirection = 0
    /\ ~physicsState.frictionEnabled
    /\ physicsState.airDragEnabled
    /\ ClampedVelocity # 0
    /\ Abs(ClampedVelocity) < STOP_THRESHOLD
    /\ physicsState.velocity = 0

\* C23: after updatePhysics(dt) the position is the position before the
\* call plus dt times the velocity the call ends with, which is the
\* velocity after the clamp to [-50, 50] m/s and after the low-speed stop.
C23_PositionUsesFinalVelocity ==
    AfterUpdate =>
        /\ physicsState.position =
               pre.position + MulDiv(physicsState.velocity, dtArg, 1000000)
        /\ Abs(physicsState.velocity) <= MAX_VELOCITY
        /\ physicsState.velocity \in {0, ClampedVelocity}

\* a step of nonzero length in which the low-speed block stopped a sled
\* that had already moved away from the origin: the position stays
C23_Witness ==
    /\ AfterUpdate
    /\ dtArg > 0
    /\ ClampedVelocity # 0
    /\ physicsState.velocity = 0
    /\ pre.position # 0
    /\ physicsState.position = pre.position

\* C24: in every state in which the help or the quiz modal is displayed
\* (style.display is 'block') isRunning is false, whatever the order of
\* openModal calls, closeModal calls and their 300 ms timeouts.
C24_ModalPauses ==
    (\E m \in Modals : display[m]) => ~isRunning

\* C25: while isRunning is false no step, a frame callback included, calls
\* updatePhysics or changes a field of the engine state; a step that
\* resumes the loop (toggleSimulation, closeModal's timeout) sets lastTime
\* to the time of the resume, lastTime is never set to anything but the
\* current timestamp, and a frame integrates at most the time since
\* lastTime, so the paused interval is not integrated.
C25_PausedLoopFrozen ==
    [][/\ ~isRunning => (physicsState' = physicsState /\ steps' = steps)
       /\ (~isRunning /\ isRunning') => lastTime' = now'
       /\ lastTime' # lastTime => lastTime' = now'
       /\ steps' = steps + 1 => (dtArg' <= now' - lastTime /\ isRunning)]_vars

\* the first frame of a behaviour comes 40 ms after a resume that ended a
\* pause of 300 ms or more, and integrates 40 ms
C25_Witness ==
    /\ AfterUpdate
    /\ steps = 1
    /\ isRunning
    /\ now >= CloseDelay + 400
    /\ lastTime = now
    /\ dtArg = 400

\* C26: an updatePhysics(dt) call with thrustDirection = 0 and
\* 0 <= dt <= 0.05 s never ends with a larger |velocity| than it started
\* with and never changes the sign of the velocity, whatever the flags.
C26_ResistanceNeverAccelerates ==
    (AfterUpdate /\ pre.thrustDirection = 0 /\ 0 <= dtArg /\ dtArg <= DtCap)
        => /\ Abs(physicsState.velocity) <= Abs(pre.velocity)
           /\ Sign(physicsState.velocity) \in {0, Sign(pre.velocity)}

\* C27: with thrustDirection = 0 and friction enabled, repeated
\* updatePhysics(dt) calls with one fixed dt in (0, 0.05] s bring the
\* velocity to exactly 0 after finitely many steps, from any starting
\* velocity; and a step that starts with velocity 0 and no thrust leaves
\* the velocity 0 and the position where it was.
C27_EventuallyStops ==
    /\ (steps >= 2 /\ physicsState.frictionEnabled)
           ~> (physicsState.velocity = 0)
    /\ [][(/\ physicsState.thrustDirection = 0
           /\ physicsState.frictionEnabled
           /\ physicsState.velocity = 0
           /\ steps' = steps + 1)
              => /\ physicsState'.velocity = 0
                 /\ physicsState'.position = physicsState.position]_vars

\* a sled released at the clamp has come to rest by friction alone after
\* more than 1300 steps of 25 ms
C27_Witness ==
    /\ AfterUpdate
    /\ steps > 1300
    /\ dtArg = 250
    /\ physicsState.frictionEnabled
    /\ ~physicsState.airDragEnabled
    /\ pre.velocity # 0
    /\ physicsState.velocity = 0
    /\ physicsState.position # 0

\* the signed force the controller has commanded, in mN
CommandedForce(s, magnitude) == s.thrustDirection * magnitude

\* C28: a keydown of ArrowRight or D never lowers the slider value or the
\* commanded signed force, a keydown of ArrowLeft or A never raises them,
\* and Space commands direction 0 and magnitude 0, from any slider value
\* reached by slider input, scenario loading and earlier key presses.
C28_KeysMonotone ==
    [][/\ op' \in RightKeys
              => /\ directionSlider' >= directionSlider
                 /\ CommandedForce(physicsState', appliedForceMagnitude')
                        >= CommandedForce(physicsState, appliedForceMagnitude)
       /\ op' \in LeftKeys
              => /\ directionSlider' <= directionSlider
                 /\ CommandedForce(physicsState', appliedForceMagnitude')
                        <= CommandedForce(physicsState, appliedForceMagnitude)
       /\ op' = " "
              => /\ physicsState'.thrustDirection = 0
                 /\ appliedForceMagnitude' = 0]_vars

====
